---- MODULE Spec2Model ----
(***************************************************************************)
(* Download Tidy / FileZen: the scan -> classify -> plan -> execute        *)
(* pipeline of the three App components of the repository.                 *)
(*                                                                         *)
(*   app = "tidy1"    src/App.tsx lines 8-357    (handlePickFolder,        *)
(*                     scanDirectory, organizeFiles)                       *)
(*   app = "tidy2"    src/App.tsx lines 366-852  (handlePickSource,        *)
(*                     scanDirectory, updateFileCategory, executeExport)   *)
(*   app = "filezen"  src/unnamed/part_000       (handlePickFolder,        *)
(*                     performScan, handleOrganize)                        *)
(*                                                                         *)
(* Text (file names, extensions, relative paths) is a sequence of          *)
(* one-character strings, so that split, pop, toLowerCase and the '/'      *)
(* join are computed the way the code computes them.  A directory or file  *)
(* handle is the absolute path of the entry: a sequence of names.          *)
(* Presentation state (activeView, theme, charts) is left out.             *)
(***************************************************************************)
EXTENDS Integers, Sequences, FiniteSets, TLC

VARIABLES
    app,              \* which App component is mounted
    disk,             \* the file system: [dirs, files]
    sourceHandle,     \* useState sourceHandle / directoryHandle
    destHandle,       \* useState destHandle (tidy2)
    files,            \* useState files: sequence of FileMetadata
    selectedFiles,    \* useState selectedFiles: set of file names
    duplicateGroups,  \* useState duplicateGroups (filezen)
    rules,            \* useState rules: extension -> category (tidy2)
    processing,       \* useState processing: ProcessingState
    step,             \* useState step (tidy2)
    systemLogs,       \* the newest entries of useState systemLogs (filezen)
    pick,             \* the running folder-pick handler and its scan
    org,              \* the running move batch and its follow-up scan
    runs,             \* how many pick and batch handlers were started
    ioErrors          \* how many I/O errors the platform has raised

vars == <<app, disk, sourceHandle, destHandle, files, selectedFiles,
          duplicateGroups, rules, processing, step, systemLogs, pick, org,
          runs, ioErrors>>

\* null in a field that holds an error message
NULL == "null"

\* null in a field that holds a directory handle: no path has an empty name
NoHandle == <<<<>>>>

(***************************************************************************)
(* Text                                                                    *)
(***************************************************************************)
Dot == "."
Slash == "/"

\* String.prototype.toLowerCase on one character
LowerChar(c) ==
    CASE c = "A" -> "a" [] c = "B" -> "b" [] c = "C" -> "c" [] c = "D" -> "d"
      [] c = "E" -> "e" [] c = "F" -> "f" [] c = "G" -> "g" [] c = "H" -> "h"
      [] c = "I" -> "i" [] c = "J" -> "j" [] c = "K" -> "k" [] c = "L" -> "l"
      [] c = "M" -> "m" [] c = "N" -> "n" [] c = "O" -> "o" [] c = "P" -> "p"
      [] c = "Q" -> "q" [] c = "R" -> "r" [] c = "S" -> "s" [] c = "T" -> "t"
      [] c = "U" -> "u" [] c = "V" -> "v" [] c = "W" -> "w" [] c = "X" -> "x"
      [] c = "Y" -> "y" [] c = "Z" -> "z" [] OTHER -> c

toLowerCase(s) == [i \in 1..Len(s) |-> LowerChar(s[i])]

\* String.prototype.split with a one-character separator: the segments
RECURSIVE split(_, _)
split(s, sep) ==
    IF \A i \in 1..Len(s) : s[i] # sep
    THEN <<s>>
    ELSE LET i == CHOOSE k \in 1..Len(s) :
                      s[k] = sep /\ \A j \in 1..(k - 1) : s[j] # sep
         IN  <<SubSeq(s, 1, i - 1)>> \o split(SubSeq(s, i + 1, Len(s)), sep)

\* Array.prototype.pop: the last element (split never returns an empty array)
pop(a) == a[Len(a)]
popped(a) == SubSeq(a, 1, Len(a) - 1)

\* entry.name.split('.').pop()?.toLowerCase() || ''   (the record's extension)
ExtensionOf(name) == toLowerCase(pop(split(name, Dot)))

\* name.split('.').pop()?.toLowerCase() || ''         (the fallback lookup key)
FallbackExtensionOf(name) == toLowerCase(pop(split(name, Dot)))

(***************************************************************************)
(* Categories                                                              *)
(***************************************************************************)
FileCategory ==
    {"Documents", "Images", "Videos", "Archives", "Installers", "Code",
     "Audio", "Unknown", "Junk"}

UNKNOWN == "Unknown"

\* The characters of a category label: the label is used as a directory name
\* (getDirectoryHandle(file.suggestedCategory, { create: true })).  "Misc" is
\* a label outside FileCategory that the oracle may answer.
CategoryName(c) ==
    CASE c = "Documents"  -> <<"D","o","c","u","m","e","n","t","s">>
      [] c = "Images"     -> <<"I","m","a","g","e","s">>
      [] c = "Videos"     -> <<"V","i","d","e","o","s">>
      [] c = "Archives"   -> <<"A","r","c","h","i","v","e","s">>
      [] c = "Installers" -> <<"I","n","s","t","a","l","l","e","r","s">>
      [] c = "Code"       -> <<"C","o","d","e">>
      [] c = "Audio"      -> <<"A","u","d","i","o">>
      [] c = "Unknown"    -> <<"U","n","k","n","o","w","n">>
      [] c = "Junk"       -> <<"J","u","n","k">>
      [] c = "Misc"       -> <<"M","i","s","c">>

\* const extensions: Record<string, FileCategory>
extensions ==
    (<<"p","d","f">> :> "Documents") @@ (<<"d","o","c","x">> :> "Documents") @@
    (<<"t","x","t">> :> "Documents") @@
    (<<"j","p","g">> :> "Images") @@ (<<"p","n","g">> :> "Images") @@
    (<<"g","i","f">> :> "Images") @@ (<<"s","v","g">> :> "Images") @@
    (<<"m","p","4">> :> "Videos") @@ (<<"m","o","v">> :> "Videos") @@
    (<<"m","k","v">> :> "Videos") @@
    (<<"z","i","p">> :> "Archives") @@ (<<"r","a","r">> :> "Archives") @@
    (<<"t","a","r">> :> "Archives") @@
    (<<"e","x","e">> :> "Installers") @@ (<<"d","m","g">> :> "Installers") @@
    (<<"p","k","g">> :> "Installers") @@
    (<<"j","s">> :> "Code") @@ (<<"t","s">> :> "Code") @@
    (<<"p","y">> :> "Code") @@ (<<"h","t","m","l">> :> "Code") @@
    (<<"m","p","3">> :> "Audio") @@ (<<"w","a","v">> :> "Audio") @@
    (<<"f","l","a","c">> :> "Audio")

Range(s) == {s[i] : i \in 1..Len(s)}

\* extensions, result, categories and rules are plain objects: a key they do
\* not own is looked up in Object.prototype, which answers these keys (among
\* others) with a function, a truthy value that is no category.
ObjectPrototypeKeys ==
    {<<"c","o","n","s","t","r","u","c","t","o","r">>,
     <<"t","o","S","t","r","i","n","g">>,
     <<"v","a","l","u","e","O","f">>}

INHERITED == "function"

\* obj[key] || otherwise
Lookup(obj, key, otherwise) ==
    IF key \in DOMAIN obj THEN obj[key]
    ELSE IF key \in ObjectPrototypeKeys THEN INHERITED
    ELSE otherwise

\* mapping[name] = extensions[ext] || FileCategory.UNKNOWN, for one name
FallbackCategory(name) == Lookup(extensions, FallbackExtensionOf(name), UNKNOWN)

\* fallbackCategorization(fileNames): name -> category
fallbackCategorization(fileNames) ==
    [name \in Range(fileNames) |-> FallbackCategory(name)]

(***************************************************************************)
(* The categorization oracle (categorizeFiles)                             *)
(***************************************************************************)
\* Labels an oracle item may carry: the Unknown label, a label outside the
\* closed set, and the empty string (an item without a usable category).
OracleLabels == {"Unknown", "Misc", ""}

\* JSON arrays the model lets the oracle answer for a request: the empty
\* array, and an array of one item about the first requested name.
OracleArrays(fileNames) ==
    {<<>>} \cup {<<label>> : label \in OracleLabels}

OracleItems(fileNames, labels) ==
    [k \in 1..Len(labels) |-> [fileName |-> fileNames[k], category |-> labels[k]]]

\* What one call of the oracle can come to.
OracleOutcomes(fileNames) ==
    {[kind |-> k, items |-> <<>>] :
         k \in {"construct_error", "request_error", "no_text", "bad_json",
                "non_array"}}
    \cup {[kind |-> "array", items |-> OracleItems(fileNames, a)] :
              a \in OracleArrays(fileNames)}

\* data.forEach(item => { if (item.fileName && item.category)
\*                          result[item.fileName] = item.category })
RECURSIVE CollectItems(_, _)
CollectItems(result, items) ==
    IF items = <<>> THEN result
    ELSE LET item == Head(items)
             next == IF item.fileName # <<>> /\ item.category # ""
                     THEN (item.fileName :> item.category) @@ result
                     ELSE result
         IN  CollectItems(next, Tail(items))

\* fileNames.forEach(name => { if (!result[name]) result[name] = fallback }):
\* a name Object.prototype answers is never filled in.
FillMissing(result, fileNames) ==
    [name \in DOMAIN result \cup (Range(fileNames) \ ObjectPrototypeKeys) |->
        IF name \in DOMAIN result THEN result[name] ELSE FallbackCategory(name)]

\* new GoogleGenAI({ apiKey }) stands before the try block: when it throws,
\* categorizeFiles rejects.
categorizeFilesRejects(outcome) == outcome.kind = "construct_error"

\* categorizeFiles(fileNames) under one oracle outcome that does not make it
\* reject: the returned name -> category record.
categorizeFiles(fileNames, outcome) ==
    CASE outcome.kind = "request_error"   -> fallbackCategorization(fileNames)
      [] outcome.kind = "no_text"         -> fallbackCategorization(fileNames)
      [] outcome.kind = "bad_json"        -> FillMissing(<<>>, fileNames)
      [] outcome.kind = "non_array"       -> FillMissing(<<>>, fileNames)
      [] outcome.kind = "array"           ->
            FillMissing(CollectItems(<<>>, outcome.items), fileNames)

(***************************************************************************)
(* The file system                                                         *)
(***************************************************************************)
n_a_pdf        == <<"a", ".", "p", "d", "f">>
n_b_zip        == <<"b", ".", "z", "i", "p">>
n_b_js         == <<"b", ".", "j", "s">>
n_Report_PDF   == <<"R", "e", "p", "o", "r", "t", ".", "P", "D", "F">>
n_README       == <<"R", "E", "A", "D", "M", "E">>
n_src          == <<"s", "r", "c">>
n_node_modules == <<"n","o","d","e","_","m","o","d","u","l","e","s">>
n_git          == <<".", "g", "i", "t">>
n_tmp          == <<"t", "m", "p">>
n_DS_Store     == <<".", "D", "S", "_", "S", "t", "o", "r", "e">>
n_AppData      == <<"A", "p", "p", "D", "a", "t", "a">>
n_constructor  == <<"c","o","n","s","t","r","u","c","t","o","r">>

\* new Set(['node_modules', '.git', 'tmp', '.DS_Store', 'AppData'])
excludedFolders == {n_node_modules, n_git, n_tmp, n_DS_Store, n_AppData}

\* The order in which a directory lists its entries (handle.values()): the
\* entries that exist, in this fixed order.
NameOrder ==
    <<n_DS_Store, n_git, n_AppData, CategoryName("Archives"),
      CategoryName("Code"), CategoryName("Documents"), CategoryName("Junk"),
      CategoryName("Misc"), n_README, n_Report_PDF, CategoryName("Unknown"),
      n_a_pdf, n_b_js, n_b_zip, n_constructor, n_node_modules, n_src, n_tmp>>

\* File contents and their byte sizes (file.size).  EMPTY is the content of a
\* file that getFileHandle(name, { create: true }) has just created.
EMPTY == "empty"
Size(content) ==
    CASE content = "c1" -> 100
      [] content = "c2" -> 100
      [] content = "c3" -> 200
      [] content = EMPTY -> 0

Prefixes(p) == {SubSeq(p, 1, k) : k \in 0..(Len(p) - 1)}

\* A disk holding the given files, with the directories above them.
MkDisk(fileMap) ==
    [dirs  |-> {<<>>} \cup UNION {Prefixes(p) : p \in DOMAIN fileMap},
     files |-> fileMap]

IsFile(d, p) == p \in DOMAIN d.files
IsDir(d, p)  == p \in d.dirs
Exists(d, p) == IsFile(d, p) \/ IsDir(d, p)

\* for await (const entry of handle.values()): the names of the entries
ListDir(d, dir) == SelectSeq(NameOrder, LAMBDA n : Exists(d, Append(dir, n)))

(***************************************************************************)
(* Directory Walker                                                        *)
(***************************************************************************)
\* A walker that would skip excluded names only where they name a directory.
SkipDirectoriesOnly(d, p, name) == name \in excludedFolders /\ IsDir(d, p)

\* if (excludedFolders.has(entry.name)) continue;
SkipEntry(d, p, name) == name \in excludedFolders

\* A join that would put the separator in front of every name.
JoinAlways(currentPath, name) == currentPath \o <<Slash>> \o name

\* path: currentPath ? `${currentPath}/${entry.name}` : entry.name
JoinPath(currentPath, name) ==
    IF currentPath # <<>> THEN currentPath \o <<Slash>> \o name ELSE name

\* foundFiles.push({ name, kind, size, extension, suggestedCategory, handle, path })
FileRecord(d, p, name, currentPath) ==
    [name              |-> name,
     kind              |-> "file",
     size              |-> Size(d.files[p]),
     extension         |-> ExtensionOf(name),
     suggestedCategory |-> UNKNOWN,
     handle            |-> p,
     path              |-> JoinPath(currentPath, name)]

\* performScan's inner scan(handle, currentPath): the records pushed while
\* the entries `entries` of directory `dir` are visited, in order.
RECURSIVE scan(_, _, _, _)
scan(d, dir, currentPath, entries) ==
    IF entries = <<>> THEN <<>>
    ELSE LET name == Head(entries)
             p    == Append(dir, name)
             rest == scan(d, dir, currentPath, Tail(entries))
         IN  IF SkipEntry(d, p, name) THEN rest
             ELSE IF IsFile(d, p)
                  THEN <<FileRecord(d, p, name, currentPath)>> \o rest
             ELSE IF IsDir(d, p)
                  THEN scan(d, p, JoinPath(currentPath, name), ListDir(d, p))
                       \o rest
             ELSE rest

\* await scan(rootHandle)
ScanRoot(d, rootHandle) == scan(d, rootHandle, <<>>, ListDir(d, rootHandle))

\* scanDirectory's loop (tidy1, tidy2): the files directly under the handle
FlatRecord(d, p, name) ==
    [name              |-> name,
     kind              |-> "file",
     size              |-> Size(d.files[p]),
     extension         |-> ExtensionOf(name),
     suggestedCategory |-> UNKNOWN,
     handle            |-> p]

RECURSIVE scanFlat(_, _, _)
scanFlat(d, dir, entries) ==
    IF entries = <<>> THEN <<>>
    ELSE LET name == Head(entries)
             p    == Append(dir, name)
             rest == scanFlat(d, dir, Tail(entries))
         IN  IF IsFile(d, p) THEN <<FlatRecord(d, p, name)>> \o rest ELSE rest

ScanFlatRoot(d, handle) == scanFlat(d, handle, ListDir(d, handle))

Names(fs) == [i \in 1..Len(fs) |-> fs[i].name]

(***************************************************************************)
(* Duplicate Detector                                                      *)
(***************************************************************************)
\* Object.entries(sizeGroups): integer keys come in ascending order
RECURSIVE Ascending(_)
Ascending(S) ==
    IF S = {} THEN <<>>
    ELSE LET m == CHOOSE x \in S : \A y \in S : x <= y
         IN  <<m>> \o Ascending(S \ {m})

\* sizeGroups[size]: the records of that size, in scan order
SizeGroup(foundFiles, size) == SelectSeq(foundFiles, LAMBDA f : f.size = size)

\* groups.push({ id: `size-${size}`, files: groupFiles, resolved: false })
\* for every size with groupFiles.length > 1
DuplicateGroupsOf(foundFiles) ==
    LET sizes  == Ascending({foundFiles[i].size : i \in 1..Len(foundFiles)})
        shared == SelectSeq(sizes, LAMBDA s : Len(SizeGroup(foundFiles, s)) > 1)
    IN  [k \in 1..Len(shared) |->
            [id       |-> <<"size-", shared[k]>>,
             files    |-> SizeGroup(foundFiles, shared[k]),
             resolved |-> FALSE]]

(***************************************************************************)
(* Classifier: what each scan does with the oracle's record                *)
(***************************************************************************)
\* filezen: if (aiCategories[f.name]) f.suggestedCategory = aiCategories[f.name]
ApplyCategories(foundFiles, aiCategories) ==
    [i \in 1..Len(foundFiles) |->
        [foundFiles[i] EXCEPT !.suggestedCategory =
            Lookup(aiCategories, foundFiles[i].name, @)]]

\* tidy1: suggestedCategory: categories[f.name] || FileCategory.UNKNOWN
ApplyCategories1(foundFiles, categories) ==
    [i \in 1..Len(foundFiles) |->
        [foundFiles[i] EXCEPT !.suggestedCategory =
            Lookup(categories, foundFiles[i].name, UNKNOWN)]]

\* A scan that would ask the oracle's record first and the rule second.
ApplyCategoriesOracleFirst(foundFiles, categories, rls) ==
    [i \in 1..Len(foundFiles) |->
        [foundFiles[i] EXCEPT !.suggestedCategory =
            Lookup(categories, foundFiles[i].name,
                   Lookup(rls, foundFiles[i].extension, UNKNOWN))]]

\* tidy2: suggestedCategory: rule || categories[f.name] || FileCategory.UNKNOWN
\* with rule = rules[f.extension]
ApplyCategories2(foundFiles, categories, rls) ==
    [i \in 1..Len(foundFiles) |->
        [foundFiles[i] EXCEPT !.suggestedCategory =
            Lookup(rls, foundFiles[i].extension,
                   Lookup(categories, foundFiles[i].name, UNKNOWN))]]

\* new Set(files.filter(f => f.suggestedCategory !== UNKNOWN).map(f => f.name))
PreSelected(fs) ==
    {fs[i].name : i \in {j \in 1..Len(fs) : fs[j].suggestedCategory # UNKNOWN}}

(***************************************************************************)
(* Executor: one move operation on the file system                         *)
(***************************************************************************)
\* The awaits of the copy part of one operation, in order:
\*   dir       getDirectoryHandle(category, { create: true })
\*   read      (file.handle).getFile()
\*   file      getFileHandle(file.name, { create: true })
\*   writable  newFile.createWritable()
\*   write     writable.write(fileData)
\*   close     writable.close()
CopyStages == <<"dir", "read", "file", "writable", "write", "close">>
NONE == "none"

CategoryDir(root, f) == Append(root, CategoryName(f.suggestedCategory))
Destination(root, f) == Append(CategoryDir(root, f), f.name)

\* The platform rejects the await by itself: the category name is taken by a
\* file, the source file is gone, the destination name is taken by a directory.
MustFail(d, root, f, stage) ==
    \/ stage = "dir"  /\ IsFile(d, CategoryDir(root, f))
    \/ stage = "read" /\ ~IsFile(d, f.handle)
    \/ stage = "file" /\ IsDir(d, Destination(root, f))

\* The await at which the copy of f stops when `injected` is the await an
\* I/O error hits (NONE: no I/O error); NONE when the copy completes.
FailStage(d, root, f, injected) ==
    LET bad == {k \in 1..Len(CopyStages) :
                   MustFail(d, root, f, CopyStages[k]) \/ CopyStages[k] = injected}
    IN  IF bad = {} THEN NONE
        ELSE CopyStages[CHOOSE k \in bad : \A j \in bad : k <= j]

StageIndex(stage) ==
    IF stage = NONE THEN Len(CopyStages) + 1
    ELSE CHOOSE k \in 1..Len(CopyStages) : CopyStages[k] = stage

\* The file system after the copy of f under `root` stopped at `stopped`:
\* the category directory exists once "dir" is passed, the destination file
\* exists (empty if new) once "file" is passed, and it holds the source's
\* bytes only once "close" is passed.
CopyFile(d, root, f, stopped) ==
    LET k     == StageIndex(stopped)
        dirs1 == IF k > 1 THEN d.dirs \cup {CategoryDir(root, f)} ELSE d.dirs
        dst   == Destination(root, f)
        made  == IF k > 3 /\ dst \notin DOMAIN d.files
                 THEN (dst :> EMPTY) @@ d.files ELSE d.files
        done  == IF k > 6 THEN (dst :> d.files[f.handle]) @@ made ELSE made
    IN  [dirs |-> dirs1, files |-> done]

\* parent.removeEntry(name): the entry must exist; a file is removed, and so
\* is a directory when it is empty.
CanRemoveEntry(d, parent, name) ==
    LET p == Append(parent, name)
    IN  \/ IsFile(d, p)
        \/ IsDir(d, p) /\ \A q \in d.dirs \cup DOMAIN d.files :
                              ~(Len(q) > Len(p) /\ SubSeq(q, 1, Len(p)) = p)

RemoveEntry(d, parent, name) ==
    LET p == Append(parent, name)
    IN  [dirs  |-> d.dirs \ {p},
         files |-> [q \in DOMAIN d.files \ {p} |-> d.files[q]]]

\* filezen: const pathParts = file.path.split('/'); pathParts.pop();
\*          for (const part of pathParts) if (part) parent = await parent.getDirectoryHandle(part)
\* The result is [ok, dir]: ok is FALSE when a getDirectoryHandle(part) of
\* the walk throws because the directory is not there.
RECURSIVE WalkParts(_, _, _)
WalkParts(d, parent, parts) ==
    IF parts = <<>> THEN [ok |-> TRUE, dir |-> parent]
    ELSE IF Head(parts) = <<>> THEN WalkParts(d, parent, Tail(parts))
    ELSE IF ~IsDir(d, Append(parent, Head(parts)))
         THEN [ok |-> FALSE, dir |-> parent]
    ELSE WalkParts(d, Append(parent, Head(parts)), Tail(parts))

ParentOf(d, root, f) == WalkParts(d, root, popped(split(f.path, Slash)))

\* The directory the original is removed from: the walked parent (filezen),
\* the source root itself (tidy1, tidy2).
RemovalParent(a, d, root, f) ==
    IF a = "filezen" THEN ParentOf(d, root, f) ELSE [ok |-> TRUE, dir |-> root]

\* Math.round((count / total) * 100)
Round100(count, total) == (200 * count + total) \div (2 * total)

(***************************************************************************)
(* Bounds of the model                                                     *)
(***************************************************************************)
\* How many of the newest audit-log entries the state keeps (systemLogs is
\* capped at 100 in the code; the model follows its newest entries only).
LogWindow == 2

\* How many folder picks and move batches one session starts.
MaxRuns == 3

\* How many I/O errors (failed directory reads, failed file operations) the
\* platform raises in one session, beside the ones the state of the disk
\* forces.
MaxIOErrors == 1

(***************************************************************************)
(* State                                                                   *)
(***************************************************************************)
Apps == {"tidy1", "tidy2", "filezen"}

\* The directory trees the user may own when the App is mounted: a flat
\* folder, and a folder with a subfolder that repeats a file name and holds
\* excluded names.
FlatDisk == MkDisk((<<n_a_pdf>> :> "c1") @@ (<<n_b_zip>> :> "c2"))

NestedDisk ==
    MkDisk((<<n_Report_PDF>> :> "c1") @@ (<<n_src, n_Report_PDF>> :> "c2")
             @@ (<<n_src, n_node_modules, n_b_js>> :> "c3")
             @@ (<<n_src, n_tmp>> :> "c3"))

\* For the components that list one level only, the flat folder also holds a
\* file the static table has no category for.
FlatDisk3 ==
    MkDisk((<<n_a_pdf>> :> "c1") @@ (<<n_b_zip>> :> "c2")
             @@ (<<n_README>> :> "c3"))

InitialDisks(a) ==
    IF a = "filezen" THEN {FlatDisk, NestedDisk} ELSE {FlatDisk3, NestedDisk}

\* The directory trees of the scan-only sessions: every set of these files.
ScanPaths ==
    {<<n_README>>, <<n_Report_PDF>>, <<n_DS_Store>>, <<n_src, n_b_zip>>,
     <<n_src, n_tmp>>, <<n_src, n_node_modules, n_b_js>>,
     <<n_src, n_src, n_a_pdf>>, <<n_tmp, n_a_pdf>>, <<n_constructor>>}

ScanContent(p) == IF Len(p) = 1 THEN "c1" ELSE "c3"

ScanDisks == {MkDisk([p \in S |-> ScanContent(p)]) : S \in SUBSET ScanPaths}

\* The directories window.showDirectoryPicker can return.
PickableDirs(d) == {<<>>, <<n_src>>} \cap d.dirs

Entry(type, message, n) == [type |-> type, message |-> message, n |-> n]

\* A log that would put the new entry behind the previous ones.
logOldestFirst(prev, entry, cap) ==
    LET all == prev \o <<entry>>
    IN  SubSeq(all, 1, IF Len(all) < cap THEN Len(all) ELSE cap)

\* log(type, message): [entry, ...prev].slice(0, cap)
log(prev, entry, cap) ==
    LET all == <<entry>> \o prev
    IN  SubSeq(all, 1, IF Len(all) < cap THEN Len(all) ELSE cap)

Log(prev, type, message, n) == log(prev, Entry(type, message, n), LogWindow)

IdlePick == [pc |-> "idle", root |-> NoHandle, found |-> <<>>]

IdleOrg ==
    [pc |-> "idle", root |-> NoHandle, dest |-> NoHandle, targets |-> <<>>,
     found |-> <<>>, total |-> 0, i |-> 0, moved |-> 0]

\* What localStorage holds under 'filezen_rules' when a session starts: nothing,
\* or a rule for the extension pdf.  No code of the repository writes the key,
\* so the value is the same in every session.
StoredRules == {<<>>, (<<"p", "d", "f">> :> "Images")}

\* The rules a component holds after it is mounted: filezen's useEffect loads
\* customRules from localStorage; tidy2 starts with useState({}); tidy1 has none.
LoadedRules(a) == IF a = "filezen" THEN StoredRules ELSE {<<>>}

\* The state after the App component `app` is mounted over one of `disks`.
Mounted(a, disks) ==
    /\ app = a
    /\ disk \in disks
    /\ sourceHandle = NoHandle
    /\ destHandle = NoHandle
    /\ files = <<>>
    /\ selectedFiles = {}
    /\ duplicateGroups = <<>>
    /\ rules \in LoadedRules(a)
    /\ processing = [isScanning |-> FALSE, isOrganizing |-> FALSE,
                     error |-> NULL, progress |-> 0]
    /\ step = "IDLE"
    /\ systemLogs = IF app = "filezen"
                    THEN Log(<<>>, "INFO", "FileZen Utility initialized.", 0)
                    ELSE <<>>
    /\ pick = IdlePick
    /\ org = IdleOrg
    /\ runs = 0
    /\ ioErrors = 0

\* The sessions of Spec start with nothing stored in localStorage.
Init == \E a \in Apps : Mounted(a, InitialDisks(a)) /\ rules = <<>>

\* One more handler run is started.
Started == runs < MaxRuns /\ runs' = runs + 1

\* The platform raises an I/O error (raised = TRUE) only while the session's
\* budget allows.
Raises(raised) ==
    IF raised THEN ioErrors < MaxIOErrors /\ ioErrors' = ioErrors + 1
    ELSE UNCHANGED ioErrors

(***************************************************************************)
(* filezen: handlePickFolder and performScan                               *)
(***************************************************************************)
\* A follow-up scan after which the finally block would not run.
FinallyOmitted(t, p) == p

\* finally { setProcessing(prev => ({ ...prev, isOrganizing: false })) } runs
\* when the scan was the follow-up scan of handleOrganize (task "org").
Finally(t, p) == IF t = "org" THEN [p EXCEPT !.isOrganizing = FALSE] ELSE p

TaskRoot(t) == IF t = "pick" THEN pick.root ELSE org.root
TaskFound(t) == IF t = "pick" THEN pick.found ELSE org.found
TaskAt(t, pc) == IF t = "pick" THEN pick.pc = pc ELSE org.pc = pc

TaskEnds(t) ==
    IF t = "pick" THEN pick' = IdlePick /\ UNCHANGED org
    ELSE org' = IdleOrg /\ UNCHANGED pick

TaskAwaitsOracle(t, found) ==
    IF t = "pick"
    THEN pick' = [pick EXCEPT !.pc = "oracle", !.found = found] /\ UNCHANGED org
    ELSE org' = [org EXCEPT !.pc = "oracle", !.found = found] /\ UNCHANGED pick

\* A catch block that would record the error and leave the scanning flag set.
ScanCaughtStillScanning(t) ==
    /\ systemLogs' = Log(systemLogs, "ERROR", "Local scan failed.", 0)
    /\ processing' = Finally(t, [processing EXCEPT
                                    !.error = "File system traversal failed."])
    /\ TaskEnds(t)
    /\ UNCHANGED <<files, selectedFiles>>

\* catch (e) { log('ERROR', 'Local scan failed.'); setProcessing(... error ...) }
ScanCaught(t) ==
    /\ systemLogs' = Log(systemLogs, "ERROR", "Local scan failed.", 0)
    /\ processing' = Finally(t, [processing EXCEPT
                                    !.isScanning = FALSE,
                                    !.error = "File system traversal failed."])
    /\ TaskEnds(t)
    /\ UNCHANGED <<files, selectedFiles>>

\* setFiles(foundFiles); setSelectedFiles(...); log('SUCCESS', ...); setProcessing(...)
ScanPublished(t, logs, found) ==
    /\ files' = found
    /\ selectedFiles' = PreSelected(found)
    /\ systemLogs' = Log(logs, "SUCCESS", "Scan complete. Found n files.", Len(found))
    /\ processing' = Finally(t, [processing EXCEPT
                                    !.isScanning = FALSE, !.progress = 100])
    /\ TaskEnds(t)

\* A catch block that would leave the scanning flag set when the picker was
\* dismissed.
PickerDismissedStillScanning(p) == p

\* The AbortError branch of the catch of a folder pick:
\* setProcessing(prev => ({ ...prev, isScanning: false }))
PickerDismissed(p) == [p EXCEPT !.isScanning = FALSE]

\* The button of the dashboard card and of the header.  The full-screen
\* scanning overlay covers both while processing.isScanning.
HandlePickFolder ==
    /\ app = "filezen"
    /\ pick.pc = "idle"
    /\ ~processing.isScanning
    /\ processing' = [processing EXCEPT !.isScanning = TRUE, !.error = NULL]
    /\ pick' = [pick EXCEPT !.pc = "picker"]
    /\ Started
    /\ UNCHANGED <<app, disk, sourceHandle, destHandle, files, selectedFiles,
                   duplicateGroups, rules, step, systemLogs, org, ioErrors>>

\* showDirectoryPicker resolves: setSourceHandle, log, performScan begins
PickerResolves ==
    /\ app = "filezen"
    /\ pick.pc = "picker"
    /\ \E handle \in PickableDirs(disk) :
          /\ sourceHandle' = handle
          /\ pick' = [pick EXCEPT !.pc = "scan", !.root = handle]
    /\ systemLogs' = Log(Log(systemLogs, "INFO", "Authorized access to: name", 0),
                         "INFO", "Scanning local file system...", 0)
    /\ UNCHANGED <<app, disk, destHandle, files, selectedFiles,
                   duplicateGroups, rules, processing, step, org, runs, ioErrors>>

\* showDirectoryPicker rejects: the user dismissed it (AbortError) or access
\* was refused (any other error)
PickerRejects ==
    /\ app = "filezen"
    /\ pick.pc = "picker"
    /\ \E name \in {"AbortError", "NotAllowedError"} :
          IF name # "AbortError"
          THEN /\ systemLogs' = Log(systemLogs, "ERROR",
                                    "Directory access denied by system.", 0)
               /\ processing' = [processing EXCEPT
                      !.error = "Access Denied. Check Windows permissions.",
                      !.isScanning = FALSE]
          ELSE /\ processing' = PickerDismissed(processing)
               /\ UNCHANGED systemLogs
    /\ pick' = IdlePick
    /\ UNCHANGED <<app, disk, sourceHandle, destHandle, files, selectedFiles,
                   duplicateGroups, rules, step, org, runs, ioErrors>>

\* performScan up to its first use of the oracle: the traversal (which a read
\* error aborts), the duplicate groups, and the publication of an empty scan.
PerformScanTraverse(t) ==
    /\ app = "filezen"
    /\ TaskAt(t, "scan")
    /\ \E readError \in BOOLEAN :
          /\ Raises(readError)
          /\ IF readError
             THEN ScanCaught(t) /\ UNCHANGED duplicateGroups
             ELSE LET foundFiles == ScanRoot(disk, TaskRoot(t))
                  IN  /\ duplicateGroups' = DuplicateGroupsOf(foundFiles)
                      /\ IF Len(foundFiles) > 0
                         THEN /\ systemLogs' = Log(systemLogs, "INFO",
                                    "Analyzing n local items...", Len(foundFiles))
                              /\ TaskAwaitsOracle(t, foundFiles)
                              /\ UNCHANGED <<files, selectedFiles, processing>>
                         ELSE ScanPublished(t, systemLogs, foundFiles)
    /\ UNCHANGED <<app, disk, sourceHandle, destHandle, rules, step, runs>>

\* categorizeFiles settles: the categories are applied and the scan published,
\* or the rejection lands in performScan's catch.
PerformScanCategorize(t) ==
    /\ app = "filezen"
    /\ TaskAt(t, "oracle")
    /\ \E outcome \in OracleOutcomes(Names(TaskFound(t))) :
          LET aiCategories == categorizeFiles(Names(TaskFound(t)), outcome)
          IN  IF categorizeFilesRejects(outcome)
              THEN ScanCaught(t)
              ELSE ScanPublished(t, systemLogs,
                                 ApplyCategories(TaskFound(t), aiCategories))
    /\ UNCHANGED <<app, disk, sourceHandle, destHandle, duplicateGroups,
                   rules, step, runs, ioErrors>>

(***************************************************************************)
(* filezen: selection                                                      *)
(***************************************************************************)
\* The Organizer view is rendered when sourceHandle is set; the scanning
\* overlay covers it while processing.isScanning.
OrganizerUsable == app = "filezen" /\ sourceHandle # NoHandle /\ ~processing.isScanning

\* the checkbox of a file row
ToggleRow ==
    /\ OrganizerUsable
    /\ \E k \in 1..Len(files) :
          selectedFiles' = IF files[k].name \in selectedFiles
                           THEN selectedFiles \ {files[k].name}
                           ELSE selectedFiles \cup {files[k].name}
    /\ UNCHANGED <<app, disk, sourceHandle, destHandle, files, duplicateGroups,
                   rules, processing, step, systemLogs, pick, org, runs, ioErrors>>

\* the Select All / Deselect All button
ToggleAll ==
    /\ OrganizerUsable
    /\ selectedFiles' = IF Cardinality(selectedFiles) = Len(files)
                        THEN {} ELSE Range(Names(files))
    /\ UNCHANGED <<app, disk, sourceHandle, destHandle, files, duplicateGroups,
                   rules, processing, step, systemLogs, pick, org, runs, ioErrors>>

(***************************************************************************)
(* Move Planner                                                            *)
(***************************************************************************)
\* A planner that would list the planned files last to first.
RECURSIVE Reversed(_)
Reversed(seq) ==
    IF seq = <<>> THEN <<>> ELSE Append(Reversed(Tail(seq)), Head(seq))

PlannedLastFirst(a, fs, sel) ==
    Reversed(SelectSeq(fs, LAMBDA f : f.name \in sel /\ f.suggestedCategory # UNKNOWN))

\* filezen: files.filter(f => selectedFiles.has(f.name) && f.suggestedCategory !== UNKNOWN)
\* tidy2:   files.filter(f => selectedFiles.has(f.name))
\* tidy1:   for (const file of files) { if (file.suggestedCategory === UNKNOWN) continue; ... }
Planned(a, fs, sel) ==
    CASE a = "filezen" ->
            SelectSeq(fs, LAMBDA f : f.name \in sel /\ f.suggestedCategory # UNKNOWN)
      [] a = "tidy2" -> SelectSeq(fs, LAMBDA f : f.name \in sel)
      [] a = "tidy1" -> SelectSeq(fs, LAMBDA f : f.suggestedCategory # UNKNOWN)

\* The denominator of the progress update:
\* filezen targets.length, tidy2 toMove.length, tidy1 files.length
ProgressTotal(a, fs, targets) == IF a = "tidy1" THEN Len(fs) ELSE Len(targets)

(***************************************************************************)
(* Executor: the batch loop shared by handleOrganize, executeExport and    *)
(* organizeFiles                                                           *)
(***************************************************************************)
\* The root the category directories are created under.
DestRoot(o) == IF app = "tidy2" THEN o.dest ELSE o.root

\* A loop that would go on with the next operation after one threw.
AfterFailureContinue(o) ==
    IF o.i < Len(o.targets) THEN [o EXCEPT !.pc = "copy", !.i = o.i + 1]
    ELSE IdleOrg

\* An operation threw: the loop is left through the catch block, whatever
\* operations remain.
AfterFailure(o) == IdleOrg

\* A catch block that would end the batch without recording anything.
BatchCaughtSilent ==
    /\ org' = AfterFailure(org)
    /\ processing' = [processing EXCEPT !.isOrganizing = FALSE]
    /\ UNCHANGED <<sourceHandle, files, selectedFiles, step, pick, systemLogs>>

\* The catch block of each batch (and filezen's finally).
BatchCaught ==
    /\ org' = AfterFailure(org)
    /\ CASE app = "filezen" ->
              /\ systemLogs' = Log(systemLogs, "ERROR",
                     "Organization partially failed. Check permissions.", 0)
              /\ processing' = [processing EXCEPT !.isOrganizing = FALSE]
         [] app = "tidy2" ->
              /\ processing' = [processing EXCEPT
                                   !.error = "Export failed: message",
                                   !.isOrganizing = FALSE]
              /\ UNCHANGED systemLogs
         [] app = "tidy1" ->
              /\ processing' = [processing EXCEPT
                                   !.error = "Organization interrupted.",
                                   !.isOrganizing = FALSE]
              /\ UNCHANGED systemLogs
    /\ UNCHANGED <<sourceHandle, files, selectedFiles, step, pick>>

\* The loop ran to its end with `moved` operations done and progress `p`.
BatchCompleted(o, moved, p, logs) ==
    CASE app = "filezen" ->
            \* log('SUCCESS', ...); await performScan(sourceHandle)
            /\ systemLogs' =
                  Log(Log(logs, "SUCCESS",
                          "Organized n files successfully.", moved),
                      "INFO", "Scanning local file system...", 0)
            /\ org' = [o EXCEPT !.pc = "scan", !.moved = moved]
            /\ processing' = p
            /\ UNCHANGED <<sourceHandle, files, selectedFiles, step>>
      [] app = "tidy2" ->
            \* setStep('COMPLETED'); setProcessing(... isOrganizing: false)
            /\ step' = "COMPLETED"
            /\ org' = IdleOrg
            /\ processing' = [p EXCEPT !.isOrganizing = FALSE]
            /\ systemLogs' = logs
            /\ UNCHANGED <<sourceHandle, files, selectedFiles>>
      [] app = "tidy1" ->
            \* setProcessing(... progress: 100); alert(...); setFiles([]);
            \* setDirectoryHandle(null)
            /\ processing' = [p EXCEPT !.isOrganizing = FALSE, !.progress = 100]
            /\ files' = <<>>
            /\ sourceHandle' = NoHandle
            /\ org' = IdleOrg
            /\ systemLogs' = logs
            /\ UNCHANGED <<selectedFiles, step>>

\* The loop is entered with the planned operations `targets`.
BatchLoop(o, targets, total, p, logs) ==
    LET o1 == [o EXCEPT !.targets = targets, !.total = total, !.i = 1,
                        !.moved = 0]
    IN  IF Len(targets) > 0
        THEN /\ org' = [o1 EXCEPT !.pc = "copy"]
             /\ processing' = p
             /\ systemLogs' = logs
             /\ UNCHANGED <<sourceHandle, files, selectedFiles, step>>
        ELSE BatchCompleted([o1 EXCEPT !.i = 0], 0, p, logs)

\* The copy half of operation i: every await from the category directory to
\* writable.close().
BatchCopy ==
    /\ org.pc = "copy"
    /\ \E injected \in Range(CopyStages) \cup {NONE} :
          LET f       == org.targets[org.i]
              stopped == FailStage(disk, DestRoot(org), f, injected)
          IN  /\ app = "tidy1" => injected # "dir"
              /\ Raises(injected # NONE)
              /\ disk' = CopyFile(disk, DestRoot(org), f, stopped)
              /\ IF stopped = NONE
                 THEN /\ org' = [org EXCEPT !.pc = "delete"]
                      /\ UNCHANGED <<sourceHandle, files, selectedFiles,
                                     processing, step, systemLogs, pick>>
                 ELSE BatchCaught
    /\ UNCHANGED <<app, destHandle, duplicateGroups, rules, runs>>

\* The delete half of operation i: the walk to the parent (filezen),
\* removeEntry, count++ and the progress update; after the last operation
\* the code behind the loop.
BatchDelete ==
    /\ org.pc = "delete"
    /\ \E ioError \in BOOLEAN :
          LET f      == org.targets[org.i]
              parent == RemovalParent(app, disk, org.root, f)
              thrown == \/ ioError
                        \/ ~parent.ok
                        \/ ~CanRemoveEntry(disk, parent.dir, f.name)
              moved  == org.moved + 1
              p      == [processing EXCEPT
                            !.progress = Round100(moved, org.total)]
          IN  /\ Raises(ioError)
              /\ IF thrown
                 THEN BatchCaught /\ UNCHANGED disk
                 ELSE /\ disk' = RemoveEntry(disk, parent.dir, f.name)
                      /\ IF org.i < Len(org.targets)
                         THEN /\ org' = [org EXCEPT !.pc = "copy",
                                                    !.i = org.i + 1,
                                                    !.moved = moved]
                              /\ processing' = p
                              /\ UNCHANGED <<sourceHandle, files,
                                             selectedFiles, step, systemLogs>>
                         ELSE BatchCompleted(org, moved, p, systemLogs)
                      /\ UNCHANGED pick
    /\ UNCHANGED <<app, destHandle, duplicateGroups, rules, runs>>

(***************************************************************************)
(* filezen: handleOrganize                                                 *)
(***************************************************************************)
\* The Execute Move button: disabled={selectedFiles.size === 0 || processing.isOrganizing}
HandleOrganize ==
    /\ OrganizerUsable
    /\ org.pc = "idle"
    /\ selectedFiles # {}
    /\ ~processing.isOrganizing
    /\ LET targets == Planned(app, files, selectedFiles)
           logs    == Log(systemLogs, "INFO", "Executing batch organization...", 0)
           p       == [processing EXCEPT !.isOrganizing = TRUE, !.progress = 0]
           o       == [IdleOrg EXCEPT !.root = sourceHandle]
       IN  BatchLoop(o, targets, ProgressTotal(app, files, targets), p, logs)
    /\ Started
    /\ UNCHANGED <<app, disk, destHandle, duplicateGroups, rules, pick, ioErrors>>

(***************************************************************************)
(* tidy2: handlePickSource and scanDirectory                               *)
(***************************************************************************)
\* The "Select Folder" button of the header, rendered while step === 'IDLE'.
HandlePickSource ==
    /\ app = "tidy2"
    /\ step = "IDLE"
    /\ pick.pc = "idle"
    /\ processing' = [processing EXCEPT !.isScanning = TRUE, !.error = NULL]
    /\ step' = "SCANNING"
    /\ pick' = [pick EXCEPT !.pc = "picker"]
    /\ Started
    /\ UNCHANGED <<app, disk, sourceHandle, destHandle, files, selectedFiles,
                   duplicateGroups, rules, systemLogs, org, ioErrors>>

\* showDirectoryPicker resolves: setSourceHandle(handle); scanDirectory begins
SourcePickerResolves ==
    /\ app = "tidy2"
    /\ pick.pc = "picker"
    /\ \E handle \in PickableDirs(disk) :
          /\ sourceHandle' = handle
          /\ pick' = [pick EXCEPT !.pc = "scan", !.root = handle]
    /\ UNCHANGED <<app, disk, destHandle, files, selectedFiles, duplicateGroups,
                   rules, processing, step, systemLogs, org, runs, ioErrors>>

\* showDirectoryPicker rejects: handlePickSource's catch
SourcePickerRejects ==
    /\ app = "tidy2"
    /\ pick.pc = "picker"
    /\ \E name \in {"AbortError", "NotAllowedError"} :
          processing' =
             IF name # "AbortError"
             THEN [processing EXCEPT
                     !.error = "Access denied. Please grant permissions to tidy files.",
                     !.isScanning = FALSE]
             ELSE PickerDismissed(processing)
    /\ step' = "IDLE"
    /\ pick' = IdlePick
    /\ UNCHANGED <<app, disk, sourceHandle, destHandle, files, selectedFiles,
                   duplicateGroups, rules, systemLogs, org, runs, ioErrors>>

\* scanDirectory's catch
ScanDirectoryCaught2 ==
    /\ processing' = [processing EXCEPT !.error = "Failed to read files.",
                                        !.isScanning = FALSE]
    /\ step' = "IDLE"
    /\ pick' = IdlePick
    /\ UNCHANGED <<files, selectedFiles>>

\* scanDirectory up to its use of the oracle: the listing of the folder
\* (which a read error aborts), progress 30, and the end of an empty scan.
ScanDirectoryRead2 ==
    /\ app = "tidy2"
    /\ pick.pc = "scan"
    /\ \E readError \in BOOLEAN :
          /\ Raises(readError)
          /\ IF readError
             THEN ScanDirectoryCaught2
             ELSE LET foundFiles == ScanFlatRoot(disk, pick.root)
                  IN  IF Len(foundFiles) > 0
                      THEN /\ pick' = [pick EXCEPT !.pc = "oracle",
                                                   !.found = foundFiles]
                           /\ processing' = [processing EXCEPT !.progress = 30]
                           /\ UNCHANGED <<files, selectedFiles, step>>
                      ELSE /\ step' = "REVIEW"
                           /\ processing' = [processing EXCEPT
                                                !.isScanning = FALSE,
                                                !.progress = 100]
                           /\ pick' = IdlePick
                           /\ UNCHANGED <<files, selectedFiles>>
    /\ UNCHANGED <<app, disk, sourceHandle, destHandle, duplicateGroups, rules,
                   systemLogs, org, runs>>

\* categorizeFiles settles: rule || categories[f.name] || UNKNOWN, setFiles,
\* setSelectedFiles, setStep('REVIEW'); a rejection lands in the catch.
ScanDirectoryCategorize2 ==
    /\ app = "tidy2"
    /\ pick.pc = "oracle"
    /\ \E outcome \in OracleOutcomes(Names(pick.found)) :
          IF categorizeFilesRejects(outcome)
          THEN ScanDirectoryCaught2
          ELSE LET categories   == categorizeFiles(Names(pick.found), outcome)
                   updatedFiles == ApplyCategories2(pick.found, categories, rules)
               IN  /\ files' = updatedFiles
                   /\ selectedFiles' = PreSelected(updatedFiles)
                   /\ step' = "REVIEW"
                   /\ processing' = [processing EXCEPT !.isScanning = FALSE,
                                                       !.progress = 100]
                   /\ pick' = IdlePick
    /\ UNCHANGED <<app, disk, sourceHandle, destHandle, duplicateGroups, rules,
                   systemLogs, org, runs, ioErrors>>

(***************************************************************************)
(* tidy2: the REVIEW and VERIFYING steps                                   *)
(***************************************************************************)
\* The categories the model's user picks in a row's <select>.
EditLabels == {"Unknown", "Images"}

\* A rule store in which the first rule written for an extension would stay.
setRulesFirstWins(prev, extension, category) == prev @@ (extension :> category)

\* setRules(prev => ({ ...prev, [file.extension]: category }))
setRules(prev, extension, category) == (extension :> category) @@ prev

\* updateFileCategory(fileName, category)
UpdateFileCategory ==
    /\ app = "tidy2"
    /\ step = "REVIEW"
    /\ \E k \in 1..Len(files), category \in EditLabels :
          LET file == files[k]
              same == {files[i].name :
                          i \in {j \in 1..Len(files) :
                                    files[j].extension = file.extension}}
          IN  /\ rules' = setRules(rules, file.extension, category)
              /\ files' = [i \in 1..Len(files) |->
                              IF files[i].extension = file.extension
                              THEN [files[i] EXCEPT !.suggestedCategory = category]
                              ELSE files[i]]
              /\ selectedFiles' = IF category # UNKNOWN
                                  THEN selectedFiles \cup same
                                  ELSE selectedFiles
    /\ UNCHANGED <<app, disk, sourceHandle, destHandle, duplicateGroups,
                   processing, step, systemLogs, pick, org, runs, ioErrors>>

\* toggleFileSelection(name)
ToggleFileSelection ==
    /\ app = "tidy2"
    /\ step = "REVIEW"
    /\ \E k \in 1..Len(files) :
          selectedFiles' = IF files[k].name \in selectedFiles
                           THEN selectedFiles \ {files[k].name}
                           ELSE selectedFiles \cup {files[k].name}
    /\ UNCHANGED <<app, disk, sourceHandle, destHandle, files, duplicateGroups,
                   rules, processing, step, systemLogs, pick, org, runs, ioErrors>>

\* "Select All": setSelectedFiles(new Set(files.map(f => f.name)))
SelectAll ==
    /\ app = "tidy2"
    /\ step = "REVIEW"
    /\ selectedFiles' = Range(Names(files))
    /\ UNCHANGED <<app, disk, sourceHandle, destHandle, files, duplicateGroups,
                   rules, processing, step, systemLogs, pick, org, runs, ioErrors>>

\* "Deselect": setSelectedFiles(new Set())
Deselect ==
    /\ app = "tidy2"
    /\ step = "REVIEW"
    /\ selectedFiles' = {}
    /\ UNCHANGED <<app, disk, sourceHandle, destHandle, files, duplicateGroups,
                   rules, processing, step, systemLogs, pick, org, runs, ioErrors>>

\* startCleanup: the button is disabled={selectedFiles.size === 0}
StartCleanup ==
    /\ app = "tidy2"
    /\ step = "REVIEW"
    /\ selectedFiles # {}
    /\ step' = "VERIFYING"
    /\ UNCHANGED <<app, disk, sourceHandle, destHandle, files, selectedFiles,
                   duplicateGroups, rules, processing, systemLogs, pick, org,
                   runs, ioErrors>>

\* "Go Back": setStep('REVIEW')
GoBack ==
    /\ app = "tidy2"
    /\ step = "VERIFYING"
    /\ step' = "REVIEW"
    /\ UNCHANGED <<app, disk, sourceHandle, destHandle, files, selectedFiles,
                   duplicateGroups, rules, processing, systemLogs, pick, org,
                   runs, ioErrors>>

\* reset: "Discard" (REVIEW) and "Start Over" (COMPLETED)
Reset ==
    /\ app = "tidy2"
    /\ step \in {"REVIEW", "COMPLETED"}
    /\ step' = "IDLE"
    /\ files' = <<>>
    /\ sourceHandle' = NoHandle
    /\ destHandle' = NoHandle
    /\ processing' = [isScanning |-> FALSE, isOrganizing |-> FALSE,
                      error |-> NULL, progress |-> 0]
    /\ UNCHANGED <<app, disk, selectedFiles, duplicateGroups, rules, systemLogs,
                   pick, org, runs, ioErrors>>

(***************************************************************************)
(* tidy2: executeExport                                                    *)
(***************************************************************************)
\* The "Confirm" button of the VERIFYING step: if (!sourceHandle) return;
\* setProcessing; setStep('EXPORTING'); then the destination picker is awaited.
ExecuteExport ==
    /\ app = "tidy2"
    /\ step = "VERIFYING"
    /\ org.pc = "idle"
    /\ sourceHandle # NoHandle
    /\ processing' = [processing EXCEPT !.isOrganizing = TRUE, !.progress = 0]
    /\ step' = "EXPORTING"
    /\ org' = [IdleOrg EXCEPT !.pc = "picker", !.root = sourceHandle,
                              !.targets = Planned(app, files, selectedFiles)]
    /\ Started
    /\ UNCHANGED <<app, disk, sourceHandle, destHandle, files, selectedFiles,
                   duplicateGroups, rules, systemLogs, pick, ioErrors>>

\* The destination picker resolves: setDestHandle(destination), then the loop
DestPickerResolves ==
    /\ app = "tidy2"
    /\ org.pc = "picker"
    /\ \E destination \in PickableDirs(disk) :
          /\ destHandle' = destination
          /\ BatchLoop([org EXCEPT !.dest = destination], org.targets,
                       ProgressTotal(app, files, org.targets), processing,
                       systemLogs)
    /\ UNCHANGED <<app, disk, duplicateGroups, rules, pick, runs, ioErrors>>

\* The destination picker rejects: executeExport's catch
DestPickerRejects ==
    /\ app = "tidy2"
    /\ org.pc = "picker"
    /\ \E name \in {"AbortError", "NotAllowedError"} :
          IF name = "AbortError"
          THEN /\ step' = "REVIEW"
               /\ processing' = [processing EXCEPT !.isOrganizing = FALSE]
          ELSE /\ processing' = [processing EXCEPT
                                    !.error = "Export failed: message",
                                    !.isOrganizing = FALSE]
               /\ UNCHANGED step
    /\ org' = IdleOrg
    /\ UNCHANGED <<app, disk, sourceHandle, destHandle, files, selectedFiles,
                   duplicateGroups, rules, systemLogs, pick, runs, ioErrors>>

(***************************************************************************)
(* tidy1: handlePickFolder, scanDirectory, handleManualCategorization      *)
(***************************************************************************)
\* The "Select Downloads Folder" button, rendered while !directoryHandle; the
\* progress overlay covers it while processing.isOrganizing.
HandlePickFolder1 ==
    /\ app = "tidy1"
    /\ sourceHandle = NoHandle
    /\ pick.pc = "idle"
    /\ ~processing.isOrganizing
    /\ processing' = [processing EXCEPT !.isScanning = TRUE, !.error = NULL]
    /\ pick' = [pick EXCEPT !.pc = "picker"]
    /\ Started
    /\ UNCHANGED <<app, disk, sourceHandle, destHandle, files, selectedFiles,
                   duplicateGroups, rules, step, systemLogs, org, ioErrors>>

\* showDirectoryPicker resolves: setDirectoryHandle(handle); scanDirectory begins
FolderPickerResolves1 ==
    /\ app = "tidy1"
    /\ pick.pc = "picker"
    /\ \E handle \in PickableDirs(disk) :
          /\ sourceHandle' = handle
          /\ pick' = [pick EXCEPT !.pc = "scan", !.root = handle]
    /\ UNCHANGED <<app, disk, destHandle, files, selectedFiles, duplicateGroups,
                   rules, processing, step, systemLogs, org, runs, ioErrors>>

\* showDirectoryPicker rejects: handlePickFolder's catch
FolderPickerRejects1 ==
    /\ app = "tidy1"
    /\ pick.pc = "picker"
    /\ \E name \in {"AbortError", "NotAllowedError"} :
          processing' =
             IF name # "AbortError"
             THEN [processing EXCEPT
                     !.error = "Access denied or feature unsupported.",
                     !.isScanning = FALSE]
             ELSE PickerDismissed(processing)
    /\ pick' = IdlePick
    /\ UNCHANGED <<app, disk, sourceHandle, destHandle, files, selectedFiles,
                   duplicateGroups, rules, step, systemLogs, org, runs, ioErrors>>

\* scanDirectory's catch
ScanDirectoryCaught1 ==
    /\ processing' = [processing EXCEPT !.error = "Failed to read files.",
                                        !.isScanning = FALSE]
    /\ pick' = IdlePick
    /\ UNCHANGED files

\* scanDirectory up to its use of the oracle: the listing of the folder
\* (which a read error aborts), progress 50, and the end of an empty scan.
ScanDirectoryRead1 ==
    /\ app = "tidy1"
    /\ pick.pc = "scan"
    /\ \E readError \in BOOLEAN :
          /\ Raises(readError)
          /\ IF readError
             THEN ScanDirectoryCaught1
             ELSE LET foundFiles == ScanFlatRoot(disk, pick.root)
                  IN  IF Len(foundFiles) > 0
                      THEN /\ pick' = [pick EXCEPT !.pc = "oracle",
                                                   !.found = foundFiles]
                           /\ processing' = [processing EXCEPT !.progress = 50]
                           /\ UNCHANGED files
                      ELSE /\ files' = <<>>
                           /\ processing' = [processing EXCEPT
                                                !.isScanning = FALSE,
                                                !.progress = 100]
                           /\ pick' = IdlePick
    /\ UNCHANGED <<app, disk, sourceHandle, destHandle, selectedFiles,
                   duplicateGroups, rules, step, systemLogs, org, runs>>

\* categorizeFiles settles: categories[f.name] || UNKNOWN and setFiles; a
\* rejection lands in the catch.
ScanDirectoryCategorize1 ==
    /\ app = "tidy1"
    /\ pick.pc = "oracle"
    /\ \E outcome \in OracleOutcomes(Names(pick.found)) :
          IF categorizeFilesRejects(outcome)
          THEN ScanDirectoryCaught1
          ELSE LET categories == categorizeFiles(Names(pick.found), outcome)
               IN  /\ files' = ApplyCategories1(pick.found, categories)
                   /\ processing' = [processing EXCEPT !.isScanning = FALSE,
                                                       !.progress = 100]
                   /\ pick' = IdlePick
    /\ UNCHANGED <<app, disk, sourceHandle, destHandle, selectedFiles,
                   duplicateGroups, rules, step, systemLogs, org, runs, ioErrors>>

\* "Cancel": setDirectoryHandle(null)
Cancel ==
    /\ app = "tidy1"
    /\ sourceHandle # NoHandle
    /\ ~processing.isOrganizing
    /\ sourceHandle' = NoHandle
    /\ UNCHANGED <<app, disk, destHandle, files, selectedFiles, duplicateGroups,
                   rules, processing, step, systemLogs, pick, org, runs, ioErrors>>

\* handleManualCategorization(fileName, category): the <select> of a row of
\* the list, rendered while files.length > 0 && !processing.isScanning
HandleManualCategorization ==
    /\ app = "tidy1"
    /\ Len(files) > 0
    /\ ~processing.isScanning
    /\ ~processing.isOrganizing
    /\ \E k \in 1..Len(files), category \in EditLabels :
          files' = [i \in 1..Len(files) |->
                       IF files[i].name = files[k].name
                       THEN [files[i] EXCEPT !.suggestedCategory = category]
                       ELSE files[i]]
    /\ UNCHANGED <<app, disk, sourceHandle, destHandle, selectedFiles,
                   duplicateGroups, rules, processing, step, systemLogs, pick,
                   org, runs, ioErrors>>

(***************************************************************************)
(* tidy1: organizeFiles                                                    *)
(***************************************************************************)
\* Array.from(new Set(list)): the distinct elements in order of first occurrence
RECURSIVE Distinct(_)
Distinct(s) ==
    IF s = <<>> THEN <<>>
    ELSE <<Head(s)>> \o Distinct(SelectSeq(Tail(s), LAMBDA x : x # Head(s)))

\* categoriesToCreate without UNKNOWN: the folders step 1 creates
CategoriesToCreate(fs) ==
    SelectSeq(Distinct([i \in 1..Len(fs) |-> fs[i].suggestedCategory]),
              LAMBDA c : c # UNKNOWN)

\* The "Execute Cleanup" button: disabled={files.length === 0 || processing.isOrganizing},
\* rendered while directoryHandle is set; if (!directoryHandle) return
OrganizeFiles ==
    /\ app = "tidy1"
    /\ sourceHandle # NoHandle
    /\ Len(files) > 0
    /\ ~processing.isOrganizing
    /\ org.pc = "idle"
    /\ LET targets == Planned(app, files, selectedFiles)
       IN  org' = [IdleOrg EXCEPT !.pc = "mkdirs", !.root = sourceHandle,
                                  !.targets = targets,
                                  !.total = ProgressTotal(app, files, targets)]
    /\ processing' = [processing EXCEPT !.isOrganizing = TRUE, !.progress = 0]
    /\ Started
    /\ UNCHANGED <<app, disk, sourceHandle, destHandle, files, selectedFiles,
                   duplicateGroups, rules, step, systemLogs, pick, ioErrors>>

\* Step 1, "Create subfolders": getDirectoryHandle(cat, { create: true }) for
\* each category in turn; the first that throws ends the batch in the catch.
OrganizeMkdirs ==
    /\ app = "tidy1"
    /\ org.pc = "mkdirs"
    /\ LET cats == CategoriesToCreate(org.targets)
       IN  \E injected \in 0..Len(cats) :
              LET bad == {k \in 1..Len(cats) :
                             \/ k = injected
                             \/ IsFile(disk, Append(org.root, CategoryName(cats[k])))}
                  n   == IF bad = {} THEN Len(cats)
                         ELSE (CHOOSE k \in bad : \A j \in bad : k <= j) - 1
              IN  /\ Raises(injected # 0)
                  /\ disk' = [disk EXCEPT !.dirs = @ \cup
                                 {Append(org.root, CategoryName(cats[k])) :
                                      k \in 1..n}]
                  /\ IF bad # {}
                     THEN BatchCaught
                     ELSE /\ BatchLoop(org, org.targets, org.total, processing,
                                       systemLogs)
                          /\ UNCHANGED pick
    /\ UNCHANGED <<app, destHandle, duplicateGroups, rules, runs>>

(***************************************************************************)
(* filezen: the audit log at its full length                               *)
(***************************************************************************)
\* .slice(0, 100)
LogCap == 100

\* How many entries one session of SpecLog appends.
MaxLogAppends == 103

\* The "Create Snapshot" button of the Safety view:
\* log('INFO', 'Initiating safety snapshot protocol...').  The entry's id and
\* timestamp are modelled by n, the number of the append.
CreateSnapshot ==
    /\ app = "filezen"
    /\ systemLogs[1].n < MaxLogAppends
    /\ systemLogs' = log(systemLogs,
                         Entry("INFO", "Initiating safety snapshot protocol...",
                               systemLogs[1].n + 1),
                         LogCap)
    /\ UNCHANGED <<app, disk, sourceHandle, destHandle, files, selectedFiles,
                   duplicateGroups, rules, processing, step, pick, org, runs,
                   ioErrors>>

(***************************************************************************)
(* Sessions                                                                *)
(***************************************************************************)
\* The page is loaded again: the component is mounted anew over the file
\* system as it is, with every useState back at its initial value and the
\* handlers of the old page gone.  filezen loads customRules from
\* localStorage, which holds what it held before (nothing writes it); tidy2
\* starts from useState({}).
Remount ==
    /\ sourceHandle' = NoHandle
    /\ destHandle' = NoHandle
    /\ files' = <<>>
    /\ selectedFiles' = {}
    /\ duplicateGroups' = <<>>
    /\ rules' = IF app = "filezen" THEN rules ELSE <<>>
    /\ processing' = [isScanning |-> FALSE, isOrganizing |-> FALSE,
                      error |-> NULL, progress |-> 0]
    /\ step' = "IDLE"
    /\ systemLogs' = IF app = "filezen"
                     THEN Log(<<>>, "INFO", "FileZen Utility initialized.", 0)
                     ELSE <<>>
    /\ pick' = IdlePick
    /\ org' = IdleOrg
    /\ UNCHANGED <<app, disk, runs, ioErrors>>

(***************************************************************************)
(* Specification                                                           *)
(***************************************************************************)
NextFilezen ==
    \/ HandlePickFolder
    \/ PickerResolves
    \/ PickerRejects
    \/ \E t \in {"pick", "org"} : PerformScanTraverse(t)
    \/ \E t \in {"pick", "org"} : PerformScanCategorize(t)
    \/ ToggleRow
    \/ ToggleAll
    \/ HandleOrganize
    \/ BatchCopy
    \/ BatchDelete

NextTidy2 ==
    \/ HandlePickSource
    \/ SourcePickerResolves
    \/ SourcePickerRejects
    \/ ScanDirectoryRead2
    \/ ScanDirectoryCategorize2
    \/ UpdateFileCategory
    \/ ToggleFileSelection
    \/ SelectAll
    \/ Deselect
    \/ StartCleanup
    \/ GoBack
    \/ Reset
    \/ ExecuteExport
    \/ DestPickerResolves
    \/ DestPickerRejects
    \/ BatchCopy
    \/ BatchDelete

NextTidy1 ==
    \/ HandlePickFolder1
    \/ FolderPickerResolves1
    \/ FolderPickerRejects1
    \/ ScanDirectoryRead1
    \/ ScanDirectoryCategorize1
    \/ Cancel
    \/ HandleManualCategorization
    \/ OrganizeFiles
    \/ OrganizeMkdirs
    \/ BatchCopy
    \/ BatchDelete

\* Any of the three components, over the trees of InitialDisks.
Next == NextFilezen \/ NextTidy2 \/ NextTidy1

Spec == Init /\ [][Next]_vars

\* One component at a time.
SpecFilezen ==
    Mounted("filezen", InitialDisks("filezen")) /\ [][NextFilezen]_vars
SpecTidy2 == Mounted("tidy2", InitialDisks("tidy2")) /\ [][NextTidy2]_vars
SpecTidy1 == Mounted("tidy1", InitialDisks("tidy1")) /\ [][NextTidy1]_vars

\* filezen sessions that only pick folders and scan, over the trees of ScanDisks.
NextScan ==
    \/ HandlePickFolder
    \/ PickerResolves
    \/ PickerRejects
    \/ PerformScanTraverse("pick")
    \/ PerformScanCategorize("pick")

SpecScan == Mounted("filezen", ScanDisks) /\ [][NextScan]_vars

\* A filezen session in which only the log grows, kept at its full length.
SpecLog == Mounted("filezen", {FlatDisk}) /\ [][CreateSnapshot]_vars

\* Any of the three components over several sessions: the page may be loaded
\* again at any moment.
NextSessions == Next \/ Remount

SpecSessions == Init /\ [][NextSessions]_vars

(***************************************************************************)
(* Properties of the Directory Walker                                      *)
(***************************************************************************)
\* p lies below the directory root; the names on the way from root to p
Below(root, p) == Len(p) > Len(root) /\ SubSeq(p, 1, Len(root)) = root
Segments(root, p) == SubSeq(p, Len(root) + 1, Len(p))

\* names joined with '/'
RECURSIVE Joined(_)
Joined(names) ==
    IF Len(names) = 1 THEN names[1]
    ELSE names[1] \o <<Slash>> \o Joined(Tail(names))

\* A scan started by a folder pick ends by publishing its records.
PickScanSucceeds ==
    /\ pick.pc \in {"scan", "oracle"}
    /\ pick'.pc = "idle"
    /\ processing'.error = NULL

\* The files below root that no excluded name hides: neither a directory on
\* the way nor the file's own name is excluded.
Reachable(d, root) ==
    {p \in DOMAIN d.files :
        Below(root, p) /\ Range(Segments(root, p)) \cap excludedFolders = {}}

\* The files below root reached through directories whose names are not
\* excluded, whatever the file's own name.
ReachableThroughDirs(d, root) ==
    {p \in DOMAIN d.files :
        /\ Below(root, p)
        /\ Range(popped(Segments(root, p))) \cap excludedFolders = {}}

\* The records fs are one record per file of `reach`, and each record is a
\* file record whose path is the names from the root joined with '/'.
RecordsOf(fs, reach, root) ==
    /\ {fs[i].handle : i \in 1..Len(fs)} = reach
    /\ \A i, j \in 1..Len(fs) : fs[i].handle = fs[j].handle => i = j
    /\ \A i \in 1..Len(fs) :
          /\ fs[i].kind = "file"
          /\ Below(root, fs[i].handle)
          /\ fs[i].name = pop(fs[i].handle)
          /\ fs[i].path = Joined(Segments(root, fs[i].handle))
          /\ Head(fs[i].path) # Slash

\* C7: no record of the file list has a path with a segment (a directory on
\* the way or the file's own name) equal to an excluded name, at any depth.
C7_NoExcludedSegment ==
    \A i \in 1..Len(files) :
        Range(split(files[i].path, Slash)) \cap excludedFolders = {}

\* A scan of the root was published while the tree holds, below the root, a
\* file inside an excluded directory two levels down and a file whose own
\* name is excluded.
C7_Witness ==
    /\ pick.pc = "idle"
    /\ sourceHandle = <<>>
    /\ Len(files) > 1
    /\ IsFile(disk, <<n_src, n_node_modules, n_b_js>>)
    /\ IsFile(disk, <<n_DS_Store>>)
    /\ IsFile(disk, <<n_tmp, n_a_pdf>>)

\* C8 (amended): a successful scan publishes exactly one record for every
\* file below the root that is reached through directories whose names are
\* not excluded and whose own name is not excluded, no record for a
\* directory, each path being the traversed directory names and the file
\* name joined with '/', without a leading '/'.
C8_OneRecordPerReachableFile ==
    [][PickScanSucceeds =>
          RecordsOf(files', Reachable(disk, pick.root), pick.root)]_vars

\* A published scan holds a record three names deep while a file with an
\* excluded name of its own sits beside reachable files.
C8_Witness ==
    /\ pick.pc = "idle"
    /\ sourceHandle = <<>>
    /\ \E i \in 1..Len(files) : Len(split(files[i].path, Slash)) = 3
    /\ \E i \in 1..Len(files) : Len(split(files[i].path, Slash)) = 1
    /\ IsFile(disk, <<n_src, n_tmp>>)

\* C8 as stated: one record for every file reached through directories whose
\* names are not excluded.
C8_AsStated ==
    [][PickScanSucceeds =>
          RecordsOf(files', ReachableThroughDirs(disk, pick.root), pick.root)]_vars

\* The extension the specification gives a name: the lowercase text after
\* the last '.', empty when the name has no '.'.
LastDot(name) ==
    CHOOSE k \in 1..Len(name) :
        name[k] = Dot /\ \A j \in (k + 1)..Len(name) : name[j] # Dot

StatedExtension(name) ==
    IF \A k \in 1..Len(name) : name[k] # Dot THEN <<>>
    ELSE toLowerCase(SubSeq(name, LastDot(name) + 1, Len(name)))

\* C10: every record's extension is the lowercase text after the last '.' of
\* its name and empty when the name has no '.', and the fallback table is
\* looked up under the same key.
C10_ExtensionRule ==
    \A i \in 1..Len(files) :
        /\ files[i].extension = StatedExtension(files[i].name)
        /\ FallbackExtensionOf(files[i].name) = StatedExtension(files[i].name)

(***************************************************************************)
(* Properties of scan failure                                              *)
(***************************************************************************)
\* A step of a scan in which the platform fails a directory listing.
ScanReadFails ==
    /\ ioErrors' # ioErrors
    /\ \/ pick.pc = "scan" /\ pick' # pick
       \/ org.pc = "scan" /\ org' # org

\* The message each component's scan records when a read fails.
ScanFailureMessage(a) ==
    IF a = "filezen" THEN "File system traversal failed."
    ELSE "Failed to read files."

\* C9 (amended): when a directory listing fails during a scan the scan is
\* aborted: file list, selection and duplicate groups stay as they were, the
\* scanning flag is cleared, and the error recorded is 'File system traversal
\* failed.' in performScan and 'Failed to read files.' in scanDirectory.
C9_ScanAborts ==
    [][ScanReadFails =>
          /\ files' = files
          /\ selectedFiles' = selectedFiles
          /\ duplicateGroups' = duplicateGroups
          /\ ~processing'.isScanning
          /\ processing'.error = ScanFailureMessage(app)]_vars

\* The scan of a second folder failed on a read: the error is recorded and
\* the file list still holds the records of the first folder.
C9_Witness ==
    /\ pick.pc = "idle"
    /\ ioErrors = 1
    /\ processing.error \in {"File system traversal failed.",
                             "Failed to read files."}
    /\ ~processing.isScanning
    /\ sourceHandle # NoHandle
    /\ Len(files) > 0
    /\ \E i \in 1..Len(files) : ~Below(sourceHandle, files[i].handle)

\* C9 as stated: the error recorded is 'File system traversal failed.' in
\* every component.
C9_AsStated ==
    [][ScanReadFails =>
          /\ files' = files
          /\ selectedFiles' = selectedFiles
          /\ duplicateGroups' = duplicateGroups
          /\ ~processing'.isScanning
          /\ processing'.error = "File system traversal failed."]_vars

(***************************************************************************)
(* Properties of the move batch                                            *)
(***************************************************************************)
\* The operation the running batch is at.
CurrentOp == org.targets[org.i]

\* A step of the batch in which the copy half of the current operation fails:
\* the platform raises an I/O error or the state of the disk forces one.
CopyFails ==
    /\ org.pc = "copy"
    /\ org' # org
    /\ \/ ioErrors' # ioErrors
       \/ \E k \in 1..Len(CopyStages) :
             MustFail(disk, DestRoot(org), CurrentOp, CopyStages[k])

\* A step of the batch in which the delete half of the current operation fails.
DeleteFails ==
    /\ org.pc = "delete"
    /\ org' # org
    /\ LET parent == RemovalParent(app, disk, org.root, CurrentOp)
       IN  \/ ioErrors' # ioErrors
           \/ ~parent.ok
           \/ ~CanRemoveEntry(disk, parent.dir, CurrentOp.name)

\* A step of the batch that completes the current operation.
OpCompletes == org.pc = "delete" /\ org' # org /\ ~DeleteFails

\* C1: a file disappears from the disk only in the delete half of the
\* operation on that very file, after its content was written to the
\* operation's destination and the writable closed; and when the copy half
\* of an operation fails, the operation's original is still at its path with
\* its content.
C1_CopyBeforeDelete ==
    [][/\ \A p \in DOMAIN disk.files \ DOMAIN disk'.files :
             /\ org.pc = "delete"
             /\ p = CurrentOp.handle
             /\ IsFile(disk, Destination(DestRoot(org), CurrentOp))
             /\ disk.files[Destination(DestRoot(org), CurrentOp)] = disk.files[p]
       /\ (CopyFails /\ IsFile(disk, CurrentOp.handle)) =>
             /\ IsFile(disk', CurrentOp.handle)
             /\ disk'.files[CurrentOp.handle] = disk.files[CurrentOp.handle]]_vars

\* C2: after every move operation that handleOrganize completes, a file with
\* the record's name and the source's bytes is at <root>/<category>/<name>.
C2_NoDataLoss ==
    [][(app = "filezen" /\ OpCompletes) =>
          LET dst == Destination(org.root, CurrentOp)
          IN  /\ IsFile(disk', dst)
              /\ IsFile(disk, CurrentOp.handle)
              /\ disk'.files[dst] = disk.files[CurrentOp.handle]]_vars

\* C3: the operations a batch is started with are on files that are in the
\* selection set and whose category is not Unknown.
C3_OnlySelectedKnown ==
    [][(org.pc = "idle" /\ org'.pc # "idle") =>
          \A k \in 1..Len(org'.targets) :
             /\ org'.targets[k].name \in selectedFiles
             /\ org'.targets[k].suggestedCategory # UNKNOWN]_vars

\* What each component records when an operation of its batch throws.
BatchFailureRecorded ==
    CASE app = "filezen" ->
            systemLogs'[1] = Entry("ERROR",
                "Organization partially failed. Check permissions.", 0)
      [] app = "tidy2" -> processing'.error = "Export failed: message"
      [] app = "tidy1" -> processing'.error = "Organization interrupted."

C6_Progress ==
    [][OpCompletes =>
          processing'.progress = Round100(org.moved + 1, Len(org.targets))]_vars

(***************************************************************************)
(* Properties of the Classifier                                            *)
(***************************************************************************)
\* The usable answers of an oracle outcome: name -> category.
OracleAnswers(outcome) ==
    IF outcome.kind = "array" THEN CollectItems(<<>>, outcome.items) ELSE <<>>

\* The static table as stated: the category of a listed extension, Unknown
\* for anything else.
StatedTable(ext) == IF ext \in DOMAIN extensions THEN extensions[ext] ELSE UNKNOWN

\* The category the stated order gives a record: the rule of its extension,
\* else the oracle's answer for its name, else the static table (which ends
\* in Unknown).
StatedCategory(f, rls, outcome) ==
    IF f.extension \in DOMAIN rls THEN rls[f.extension]
    ELSE IF f.name \in DOMAIN OracleAnswers(outcome)
         THEN OracleAnswers(outcome)[f.name]
    ELSE StatedTable(toLowerCase(pop(split(f.name, Dot))))

\* A step in which the scan of a folder pick publishes categorized records.
ScanCategorized ==
    /\ pick.pc = "oracle"
    /\ pick'.pc = "idle"
    /\ processing'.error = NULL

\* C11: the records a successful scan publishes carry, for some outcome of
\* the oracle, the category of the stated order: the stored rule of the
\* record's extension first, then the oracle's answer for the name, then the
\* static table, then Unknown.
C11_RuleOracleTable ==
    [][ScanCategorized =>
          /\ Len(files') = Len(pick.found)
          /\ \E outcome \in OracleOutcomes(Names(pick.found)) :
                \A i \in 1..Len(pick.found) :
                    files'[i].suggestedCategory =
                        StatedCategory(pick.found[i], rules, outcome)]_vars

\* C12: an oracle entry whose label is outside the closed category set counts
\* as no answer, so every record of the file list carries one of the nine
\* labels of FileCategory.
C12_CategoriesClosed ==
    \A i \in 1..Len(files) : files[i].suggestedCategory \in FileCategory

\* The oracle outcomes under which categorizeFiles reaches its fill-in loop
\* or its no-text return.
AnsweredOutcomes(fileNames) ==
    {o \in OracleOutcomes(fileNames) :
        o.kind \in {"no_text", "bad_json", "non_array", "array"}}

\* C13: whatever names a scan asks the oracle about and whatever the oracle
\* answers (no text, unparsable text, a non-array, an empty array, an array
\* answering only some names), the record categorizeFiles returns has a
\* category for every requested name, and a name the oracle did not answer
\* has the static table's category for its lowercase extension.
C13_EveryNameCategorized ==
    pick.pc = "oracle" =>
        \A outcome \in AnsweredOutcomes(Names(pick.found)) :
            LET fileNames == Names(pick.found)
                result    == categorizeFiles(fileNames, outcome)
            IN  \A name \in Range(fileNames) :
                    /\ name \in DOMAIN result
                    /\ name \notin DOMAIN OracleAnswers(outcome) =>
                          result[name] = StatedTable(StatedExtension(name))

\* A step in which the oracle call of a scan settles, whatever its outcome.
OracleSettles ==
    \/ pick.pc = "oracle" /\ pick' # pick
    \/ org.pc = "oracle" /\ org' # org

\* The records the scan had collected when it asked the oracle.
AwaitingRecords == IF pick.pc = "oracle" /\ pick' # pick THEN pick.found ELSE org.found

\* C14: no outcome of the oracle call aborts a scan or touches the error
\* field: when the oracle call of a scan settles, the scan publishes the
\* records it collected and the error field stays as it was.
C14_OracleFailureAbsorbed ==
    [][OracleSettles =>
          /\ Names(files') = Names(AwaitingRecords)
          /\ processing'.error = processing.error]_vars

(***************************************************************************)
(* Properties of the Duplicate Detector                                    *)
(***************************************************************************)
\* A step in which a scan publishes its records.
ScanPublishes ==
    \/ pick.pc \in {"scan", "oracle"} /\ pick'.pc = "idle"
          /\ processing'.error = NULL
    \/ org.pc \in {"scan", "oracle"} /\ org'.pc = "idle"
          /\ processing'.error = NULL

\* The files of a group, as the handles of its records in order.
GroupHandles(g) == [j \in 1..Len(g.files) |-> g.files[j].handle]

\* The handles of the records of fs that have the given size, in the order of fs.
HandlesOfSize(fs, size) ==
    LET same == SelectSeq(fs, LAMBDA f : f.size = size)
    IN  [j \in 1..Len(same) |-> same[j].handle]

\* The byte sizes that at least two records of fs share.
SharedSizes(fs) ==
    {n \in {fs[i].size : i \in 1..Len(fs)} :
        \E i, j \in 1..Len(fs) : i # j /\ fs[i].size = n /\ fs[j].size = n}

\* groups are exactly the duplicate groups of the records fs.
GroupsOf(groups, fs) ==
    /\ Len(groups) = Cardinality(SharedSizes(fs))
    /\ \A n \in SharedSizes(fs) :
          \E k \in 1..Len(groups) :
              /\ groups[k].id = <<"size-", n>>
              /\ GroupHandles(groups[k]) = HandlesOfSize(fs, n)
    /\ \A k \in 1..Len(groups) : groups[k].resolved = FALSE
    /\ \A i \in 1..Len(fs) :
          Cardinality({k \in 1..Len(groups) :
                          fs[i].handle \in Range(GroupHandles(groups[k]))})
             = IF fs[i].size \in SharedSizes(fs) THEN 1 ELSE 0

\* C15: when a scan publishes its records, the duplicate groups are exactly
\* one group "size-<n>" for each byte size n that at least two of the records
\* share, holding all and only the records of that size in scan order and
\* not resolved; a record of a unique size is in no group, no record in two.
C15_DuplicateGroups ==
    [][ScanPublishes => GroupsOf(duplicateGroups', files')]_vars

(***************************************************************************)
(* Properties of the Rule Store                                            *)
(***************************************************************************)
\* store is prev with the rule of extension e set to category c: e has that
\* one rule and every other extension keeps the rule it had.
RuleWritten(prev, store, e, c) ==
    /\ DOMAIN store = DOMAIN prev \cup {e}
    /\ store[e] = c
    /\ \A other \in DOMAIN prev \ {e} : store[other] = prev[other]

\* C16: every change of the rule store is the write of one rule, after which
\* the extension has exactly the rule written last and the other extensions
\* keep theirs; and writing the same (extension, category) pair a second
\* time leaves the store as the first write left it.
C16_LastWriteWins ==
    [][/\ rules' # rules =>
             \E k \in 1..Len(files), c \in FileCategory :
                 RuleWritten(rules, rules', files[k].extension, c)
       /\ \A k \in 1..Len(files), c \in EditLabels :
             LET once == setRules(rules, files[k].extension, c)
             IN  /\ RuleWritten(rules, once, files[k].extension, c)
                 /\ setRules(once, files[k].extension, c) = once]_vars

\* Category edits have written rules for two extensions, one rule Unknown
\* and one Images, and a selected file's extension has the rule Unknown.
C16_Witness ==
    /\ app = "tidy2"
    /\ Cardinality(DOMAIN rules) >= 2
    /\ \E e1, e2 \in DOMAIN rules : rules[e1] = "Unknown" /\ rules[e2] = "Images"
    /\ \E k \in 1..Len(files) :
          /\ files[k].extension \in DOMAIN rules
          /\ rules[files[k].extension] = "Unknown"
          /\ files[k].name \in selectedFiles

\* C17: rules persist across sessions: when the page is loaded again, every
\* rule the store held is in the mapping the new session starts with.
C17_RulesPersist ==
    [][Remount =>
          \A e \in DOMAIN rules : e \in DOMAIN rules' /\ rules'[e] = rules[e]]_vars

(***************************************************************************)
(* Properties of the audit log                                             *)
(***************************************************************************)
\* C18: every append puts the new entry at index 0 and keeps the previous
\* entries in their order behind it, dropping only what lies beyond the
\* 100th; so the log never holds more than 100 entries and is newest first.
C18_LogCapped ==
    [][systemLogs' # systemLogs =>
          /\ Len(systemLogs') = IF Len(systemLogs) < 100
                                THEN Len(systemLogs) + 1 ELSE 100
          /\ systemLogs'[1].message = "Initiating safety snapshot protocol..."
          /\ \A i \in 2..Len(systemLogs') : systemLogs'[i] = systemLogs[i - 1]
          /\ \A i, j \in 1..Len(systemLogs') :
                i < j => systemLogs'[i].n > systemLogs'[j].n]_vars

\* The log is full and its oldest entry, the one of the mount, was dropped.
C18_Witness ==
    /\ Len(systemLogs) = 100
    /\ systemLogs[100].message = "Initiating safety snapshot protocol..."
    /\ systemLogs[1].n = systemLogs[100].n + 99

(***************************************************************************)
(* Properties of cancellation                                              *)
(***************************************************************************)
\* The errors the components record when a picker is refused, not dismissed.
AccessDeniedMessages ==
    {"Access Denied. Check Windows permissions.",
     "Access denied. Please grant permissions to tidy files.",
     "Access denied or feature unsupported."}

\* A step in which the user dismisses the root picker of a scan.
RootPickerDismissed ==
    /\ pick.pc = "picker"
    /\ pick'.pc = "idle"
    /\ processing'.error \notin AccessDeniedMessages

\* A step in which the user dismisses the destination picker of an export.
DestPickerDismissed ==
    /\ org.pc = "picker"
    /\ org'.pc = "idle"
    /\ step' = "REVIEW"

\* C19: when the user dismisses a directory picker no work begins: the file
\* system, the file list, the selection and the handles stay as they are, no
\* error is recorded, the handler ends, and the scanning flag (root picker)
\* or the organizing flag (destination picker) is cleared.
C19_DeclineStartsNothing ==
    [][/\ RootPickerDismissed =>
             /\ pick' = IdlePick
             /\ ~processing'.isScanning
             /\ processing'.error = processing.error
             /\ UNCHANGED <<disk, files, selectedFiles, sourceHandle,
                            destHandle, duplicateGroups, systemLogs, org>>
       /\ DestPickerDismissed =>
             /\ org' = IdleOrg
             /\ ~processing'.isOrganizing
             /\ processing'.error = processing.error
             /\ UNCHANGED <<disk, files, selectedFiles, sourceHandle,
                            destHandle, duplicateGroups, systemLogs, pick>>]_vars

\* filezen after its first folder pick was dismissed: one handler was started
\* and has ended, no folder is held, nothing was logged beyond the mount, no
\* error is recorded and the scanning flag is clear.
C19_Witness ==
    /\ app = "filezen"
    /\ runs = 1
    /\ pick = IdlePick
    /\ sourceHandle = NoHandle
    /\ Len(systemLogs) = 1
    /\ processing.error = NULL
    /\ ~processing.isScanning

(***************************************************************************)
(* Properties of the order of a batch                                      *)
(***************************************************************************)
\* The batch is inside its loop.
InLoop(o) == o.pc \in {"copy", "delete"}

\* The records of fs that are selected and categorized, in the order of fs.
PlannedInListOrder(fs, sel) ==
    SelectSeq(fs, LAMBDA f : f.name \in sel /\ f.suggestedCategory # UNKNOWN)

\* The path the delete half of the current operation removes.
CurrentOriginal ==
    Append(RemovalParent(app, disk, org.root, CurrentOp).dir, CurrentOp.name)

\* C20: a batch works through its operations one at a time in the order of
\* the file list.  The loop is entered at operation 1 with the planned files
\* in list order; inside the loop the plan does not change, the copy half of
\* an operation is followed by its own delete half, and the copy of operation
\* k+1 starts only in the step that completes the delete of operation k;
\* and the file system changes only through the operation the loop is at.
C20_InOrderOneAtATime ==
    [][/\ (~InLoop(org) /\ InLoop(org')) =>
             /\ org'.pc = "copy"
             /\ org'.i = 1
             /\ org'.targets = PlannedInListOrder(files, selectedFiles)
       /\ (InLoop(org) /\ InLoop(org') /\ org' # org) =>
             /\ org'.targets = org.targets
             /\ \/ org.pc = "copy" /\ org'.pc = "delete" /\ org'.i = org.i
                \/ /\ org.pc = "delete" /\ org'.pc = "copy"
                   /\ org'.i = org.i + 1
                   /\ ~IsFile(disk', CurrentOriginal)
       /\ disk' # disk =>
             /\ InLoop(org)
             /\ org.pc = "copy" =>
                   /\ DOMAIN disk.files \subseteq DOMAIN disk'.files
                   /\ \A p \in DOMAIN disk'.files :
                         p # Destination(DestRoot(org), CurrentOp) =>
                            p \in DOMAIN disk.files
                            /\ disk'.files[p] = disk.files[p]
             /\ org.pc = "delete" =>
                   disk' = RemoveEntry(disk,
                              RemovalParent(app, disk, org.root, CurrentOp).dir,
                              CurrentOp.name)]_vars

\* The first operation of a batch of two is done (its original is gone and
\* its copy is in place) and the copy of the second is about to start.
C20_Witness ==
    /\ app = "filezen"
    /\ org.pc = "copy"
    /\ org.i = 2
    /\ Len(org.targets) = 2
    /\ ~IsFile(disk, org.targets[1].handle)
    /\ IsFile(disk, Destination(org.root, org.targets[1]))
    /\ IsFile(disk, org.targets[2].handle)

(***************************************************************************)
(* Properties of the file list after a batch                               *)
(***************************************************************************)
\* A step in which a move batch ends: by success (with its follow-up scan in
\* filezen) or in its catch block.
BatchEnds == org.pc # "idle" /\ org'.pc = "idle"

\* A step in which a move batch enters its loop.
BatchStarts == ~InLoop(org) /\ InLoop(org')

\* C21: a record is retired once its move succeeded.  When a move batch
\* ends, in success or on a failure, every record of the file list is of a
\* file that is still at its recorded path; and the operations a batch starts
\* with are all on files that exist at their recorded paths.
C21_MovedRecordRetired ==
    [][/\ BatchEnds =>
             \A i \in 1..Len(files') : IsFile(disk', files'[i].handle)
       /\ BatchStarts =>
             \A k \in 1..Len(org'.targets) :
                 IsFile(disk, org'.targets[k].handle)]_vars

(***************************************************************************)
(* Properties of the source root                                           *)
(***************************************************************************)
\* The record f was discovered by a scan of the directory root: its handle
\* is the file at its relative path below root.
ScannedFrom(f, root) == f.handle = root \o split(f.path, Slash)

\* C22: while no folder pick is running, a non-empty file list holds only
\* records discovered under the directory held as sourceHandle; and the
\* operations of a running batch are on records discovered under the root
\* the batch creates category folders in and deletes from.
C22_RecordsUnderRoot ==
    /\ (pick.pc = "idle" /\ files # <<>>) =>
          /\ sourceHandle # NoHandle
          /\ \A i \in 1..Len(files) : ScannedFrom(files[i], sourceHandle)
    /\ InLoop(org) =>
          \A k \in 1..Len(org.targets) : ScannedFrom(org.targets[k], org.root)

(***************************************************************************)
(* Properties of a repeated batch                                          *)
(***************************************************************************)
\* The file system after handleOrganize ran over `targets` under `root` with
\* no I/O error raised by the platform: each operation is the copy followed
\* by the removal of the original, and the first operation the state of the
\* disk makes fail ends the loop.
RECURSIVE BatchResult(_, _, _)
BatchResult(d, root, targets) ==
    IF targets = <<>> THEN d
    ELSE LET f       == Head(targets)
             stopped == FailStage(d, root, f, NONE)
             copied  == CopyFile(d, root, f, stopped)
             parent  == ParentOf(copied, root, f)
         IN  IF stopped # NONE THEN copied
             ELSE IF ~parent.ok \/ ~CanRemoveEntry(copied, parent.dir, f.name)
                  THEN copied
             ELSE BatchResult(RemoveEntry(copied, parent.dir, f.name), root,
                              Tail(targets))

\* The files below root with their contents.
FilesUnder(d, root) ==
    [p \in {q \in DOMAIN d.files : Below(root, q)} |-> d.files[p]]

\* A step in which the follow-up scan of a batch publishes its records, the
\* batch having moved every categorized file of the list it was planned from.
FollowUpScanPublishes ==
    /\ org.pc \in {"scan", "oracle"}
    /\ org'.pc = "idle"
    /\ systemLogs'[1].type = "SUCCESS"
    /\ org.moved = Len(org.targets)
    /\ org.moved > 0
    /\ org.targets = SelectSeq(files, LAMBDA f : f.suggestedCategory # UNKNOWN)

\* C23: executing the batch is idempotent on the directory tree.  When the
\* follow-up scan of a fully successful batch has published its records and
\* pre-selected the categorized ones, running handleOrganize again on that
\* list and selection leaves the files under the root and their contents as
\* they are.
C23_BatchIdempotent ==
    [][FollowUpScanPublishes =>
          FilesUnder(BatchResult(disk', sourceHandle',
                                 Planned("filezen", files', selectedFiles')),
                     sourceHandle')
             = FilesUnder(disk', sourceHandle')]_vars

(***************************************************************************)
(* Properties of the selection                                             *)
(***************************************************************************)
\* The record f is planned for the next batch under the selection sel.
IsPlanned(f, sel) == f.name \in sel /\ f.suggestedCategory # UNKNOWN

\* A step in which the checkbox of one file row is toggled: one name enters
\* or leaves the selection and the file list stays.
RowToggled ==
    /\ app = "filezen"
    /\ files' = files
    /\ Cardinality((selectedFiles' \ selectedFiles)
                      \cup (selectedFiles \ selectedFiles')) = 1

\* C24: selection is per file record.  Toggling the checkbox of one record
\* leaves the planned status of every other record as it was, records with
\* the same leaf name in another directory included: at most one record
\* changes between planned and not planned.
C24_SelectionPerRecord ==
    [][RowToggled =>
          \E k \in 1..Len(files) :
              \A i \in 1..Len(files) :
                  i # k => (IsPlanned(files[i], selectedFiles')
                               <=> IsPlanned(files[i], selectedFiles))]_vars

\* C25: the selection set is always a subset of the names of the records in
\* the current file list.
C25_SelectionWithinList == selectedFiles \subseteq Range(Names(files))

\* The names of the records of fs whose category is not Unknown.
CategorizedNames(fs) ==
    {n \in Range(Names(fs)) :
        \E i \in 1..Len(fs) : fs[i].name = n /\ fs[i].suggestedCategory # UNKNOWN}

\* C26: immediately after a successful scan (performScan, and scanDirectory
\* of the component with a selection) the selection set is exactly the set
\* of names of the scanned files whose category is not Unknown.
C26_PreSelectionAfterScan ==
    [][(app \in {"filezen", "tidy2"} /\ ScanPublishes) =>
          selectedFiles' = CategorizedNames(files')]_vars

(***************************************************************************)
(* Properties of the step flow                                             *)
(***************************************************************************)
\* C27: the step flow never gets stuck.  In every reachable state of the
\* component with the steps IDLE .. COMPLETED that is not at IDLE, some user
\* action is enabled or a running operation can take its next step.
C27_NeverStuck ==
    (app = "tidy2" /\ step # "IDLE") => ENABLED NextTidy2

(***************************************************************************)
(* Properties of the busy flags                                            *)
(***************************************************************************)
\* The platform settles what a handler awaits: the picker, the directory
\* listing, the oracle call, the file operations.  PerformScanTraverse(t) is
\* enabled exactly while task t is at its traversal (the listing either fails
\* or completes), so its weak fairness is stated on that position.
TraverseSettles(t) ==
    <>[](app = "filezen" /\ TaskAt(t, "scan"))
        => []<><<PerformScanTraverse(t)>>_vars

\* filezen mounted over the flat folder with nothing stored in localStorage:
\* the useEffect finds no 'filezen_rules' item and customRules stays empty.
MountedFresh ==
    Mounted("filezen", {FlatDisk}) /\ rules = <<>>

\* filezen from that state, with the platform's promises settling: a handler
\* that awaits is resumed eventually.  No fairness is assumed of the user's
\* clicks.
SpecFilezenFair ==
    /\ MountedFresh
    /\ [][NextFilezen]_vars
    /\ WF_vars(PickerResolves \/ PickerRejects)
    /\ TraverseSettles("pick")
    /\ WF_vars(PerformScanCategorize("pick"))
    /\ WF_vars(BatchCopy)
    /\ WF_vars(BatchDelete)
    /\ TraverseSettles("org")
    /\ WF_vars(PerformScanCategorize("org"))

\* C28: every started scan and every started move batch eventually ends with
\* its busy flag cleared.  handlePickFolder always returns, and isScanning is
\* false in the state it returns in; handleOrganize always returns, and
\* isOrganizing is false in the state it returns in; and a batch starts only
\* while isOrganizing is false, which it sets.
C28_BusyFlagsCleared ==
    /\ [][/\ (pick.pc # "idle" /\ pick'.pc = "idle") => ~processing'.isScanning
          /\ (org.pc # "idle" /\ org'.pc = "idle") => ~processing'.isOrganizing
          /\ (org.pc = "idle" /\ org'.pc # "idle") =>
                ~processing.isOrganizing /\ processing'.isOrganizing]_vars
    /\ (pick.pc # "idle") ~> (pick.pc = "idle" /\ ~processing.isScanning)
    /\ (org.pc # "idle") ~> (org.pc = "idle" /\ ~processing.isOrganizing)

\* A batch has returned after its follow-up rescan failed: a file was moved,
\* the scan's error is recorded, both handlers are idle and both flags clear.
C28_Witness ==
    /\ app = "filezen"
    /\ runs = 2
    /\ pick = IdlePick
    /\ org = IdleOrg
    /\ processing.error = "File system traversal failed."
    /\ systemLogs[1].message = "Local scan failed."
    /\ ~processing.isScanning
    /\ ~processing.isOrganizing
    /\ \E i \in 1..Len(files) :
          /\ ~IsFile(disk, files[i].handle)
          /\ IsFile(disk, Destination(sourceHandle, files[i]))

(***************************************************************************)
(* Properties of category edits                                            *)
(***************************************************************************)
\* A flat folder with two files of the extension pdf and one of another.
TwoPdfDisk ==
    MkDisk((<<n_a_pdf>> :> "c1") @@ (<<n_Report_PDF>> :> "c3")
             @@ (<<n_b_zip>> :> "c2"))

\* The component with the rule store over that folder.
SpecEdits == Mounted("tidy2", {TwoPdfDisk}) /\ [][NextTidy2]_vars

\* The effects of updateFileCategory(files[k].name, c) as stated.
EditedTo(k, c) ==
    LET e == files[k].extension
    IN  /\ DOMAIN rules' = DOMAIN rules \cup {e}
        /\ rules'[e] = c
        /\ \A other \in DOMAIN rules \ {e} : rules'[other] = rules[other]
        /\ Len(files') = Len(files)
        /\ \A i \in 1..Len(files) :
              files'[i] = IF files[i].extension = e
                          THEN [files[i] EXCEPT !.suggestedCategory = c]
                          ELSE files[i]

\* Every listed file whose extension has a rule carries the rule's category.
RulesApplied ==
    \A i \in 1..Len(files) :
        files[i].extension \in DOMAIN rules =>
            files[i].suggestedCategory = rules[files[i].extension]

\* C29: a category edit in the review list is updateFileCategory(name, c) on
\* a listed file of extension e: afterwards the rule of e is c, every listed
\* file of extension e has category c and the files and rules of the other
\* extensions are as before; and in every reachable state every listed file
\* whose extension has a rule carries that rule's category.
C29_EditAppliesRule ==
    /\ [][(step = "REVIEW" /\ (rules' # rules \/ files' # files)
              /\ step' = "REVIEW") =>
             \E k \in 1..Len(files), c \in FileCategory : EditedTo(k, c)]_vars
    /\ [](app = "tidy2" => RulesApplied)

\* After a rule pdf -> Images was written, the folder was scanned again: both
\* pdf files are listed with the rule's category, which is not the category
\* of the static table, and the file of the other extension kept its own.
C29_Witness ==
    /\ app = "tidy2"
    /\ runs = 2
    /\ step = "REVIEW"
    /\ processing.progress = 100
    /\ DOMAIN rules = {<<"p", "d", "f">>}
    /\ rules[<<"p", "d", "f">>] = "Images"
    /\ Len(files) = 3
    /\ Cardinality({i \in 1..Len(files) :
                       /\ files[i].extension = <<"p", "d", "f">>
                       /\ files[i].suggestedCategory = "Images"}) = 2
    /\ \E i \in 1..Len(files) : files[i].suggestedCategory = "Archives"

(***************************************************************************)
(* Properties of the handlers' exclusion                                   *)
(***************************************************************************)
\* C30: picking a folder and running a batch never interleave.  While a move
\* batch is in progress no folder pick starts, the source root is not
\* replaced, and no step of a folder pick changes the file list or the
\* selection; and no batch starts while a folder pick is in progress.
C30_PickBatchExclusive ==
    [][/\ org.pc # "idle" =>
             /\ ~(pick.pc = "idle" /\ pick'.pc # "idle")
             /\ sourceHandle' = sourceHandle
             /\ pick' # pick => files' = files /\ selectedFiles' = selectedFiles
       /\ pick.pc # "idle" => ~(org.pc = "idle" /\ org'.pc # "idle")]_vars

====
